---- MODULE Spec2Model ----
(***************************************************************************)
(* Model of jumper (src/src/main.rs, src/src/tmux.rs): a project switcher  *)
(* that keeps a project list (~/.projects), a selection history            *)
(* (~/.projects_history) and a cache of the resolved project paths         *)
(* (/tmp/.projects_cache), and drives fzf and tmux.                        *)
(*                                                                         *)
(* Strings are sequences of chunks.  A chunk is a piece of text that the   *)
(* program's string operations never split: a path component ("/a"), the   *)
(* home prefix ("/home/u"), a dot, a space, the word "--depth", a run of   *)
(* digits.  No chunk is a prefix of another, so prefix tests, equality,    *)
(* concatenation and byte-wise ordering of the text are the same           *)
(* operations on the chunk sequences.                                      *)
(***************************************************************************)
EXTENDS Integers, Sequences, FiniteSets, TLC

VARIABLES
    projects_file,   \* ~/.projects: [exists, lines, mtime]
    history_file,    \* ~/.projects_history: [exists, lines]
    cache_file,      \* /tmp/.projects_cache: [exists, lines, mtime]
    sessions,        \* names of the live tmux sessions
    clock,           \* the filesystem's timestamp counter
    edited,          \* a list edit or clear-cache happened after the last cache write
    selections,      \* labels selected so far, most recent first, each once
    run,             \* what the last invocation did
    pin,             \* inputs of the pure-function specifications
    resolved         \* what get_projects returned on its last run, and to whom

vars == <<projects_file, history_file, cache_file, sessions, clock, edited,
          selections, run, pin, resolved>>

---------------------------------------------------------------------------
(* Bounds *)

\* longest project list, and longest line (in chunks), of the whole program's
\* specification
MaxLines == 2
MaxLineLen == 5
\* the same, of the specification of the project-list subcommands alone
ListMaxLines == 3
ListMaxLineLen == 9
\* last value of the timestamp counter
MaxClock == 1
\* entries kept in the history log (new_history.truncate); 2000 in the source
HistoryCap == 2
\* longest history / candidate sequence of the pure-function specifications
MaxSeq == 3

---------------------------------------------------------------------------
(* Text *)

SP == " "
DEPTH == "--depth"
DOT == "."
HOME == "/home/u"
SSD == "/run/media/fib/ExternalSSD/code"
BIG == "99999999999"

Digits == {"0", "1", BIG}

\* byte-wise rank of the chunks (space < '-' < '.' < '/' < digits < letters < '~')
ChunkRank(c) ==
    CASE c = SP -> 0
      [] c = DEPTH -> 1
      [] c = DOT -> 2
      [] c = "/a" -> 3
      [] c = "/b" -> 4
      [] c = HOME -> 5
      [] c = SSD -> 6
      [] c = "0" -> 7
      [] c = "1" -> 8
      [] c = BIG -> 9
      [] c = ":" -> 10
      [] c = "\\" -> 11
      [] c = "code" -> 12
      [] c = "s" -> 13
      [] c = "~" -> 14
      [] OTHER -> 15

\* a.starts_with(p)
starts_with(a, p) ==
    /\ Len(p) <= Len(a)
    /\ SubSeq(a, 1, Len(p)) = p

\* a < b in String's Ord (lexicographic, a proper prefix is smaller)
RECURSIVE StrLess(_, _)
StrLess(a, b) ==
    IF b = <<>> THEN FALSE
    ELSE IF a = <<>> THEN TRUE
    ELSE IF Head(a) = Head(b) THEN StrLess(Tail(a), Tail(b))
    ELSE ChunkRank(Head(a)) < ChunkRank(Head(b))

RECURSIVE trim_start(_)
trim_start(s) ==
    IF s # <<>> /\ Head(s) = SP THEN trim_start(Tail(s)) ELSE s

RECURSIVE trim_end(_)
trim_end(s) ==
    IF s # <<>> /\ s[Len(s)] = SP THEN trim_end(SubSeq(s, 1, Len(s) - 1)) ELSE s

\* str::trim
trim(s) == trim_end(trim_start(s))

\* Vec<String>::sort: insertion of each line into an ordered sequence
RECURSIVE InsertSorted(_, _)
InsertSorted(x, s) ==
    IF s = <<>> THEN <<x>>
    ELSE IF StrLess(x, Head(s)) THEN <<x>> \o s
    ELSE <<Head(s)>> \o InsertSorted(x, Tail(s))

RECURSIVE sort(_)
sort(s) ==
    IF s = <<>> THEN <<>> ELSE InsertSorted(s[Len(s)], sort(SubSeq(s, 1, Len(s) - 1)))

Contains(s, x) == \E i \in 1..Len(s) : s[i] = x

NoDup(s) == \A i, j \in 1..Len(s) : s[i] = s[j] => i = j

\* Vec::truncate
truncate(s, n) == IF Len(s) > n THEN SubSeq(s, 1, n) ELSE s

\* filter(|x| seen.insert(x)): keep the first occurrence of each element
RECURSIVE Dedup(_, _)
Dedup(s, seen) ==
    IF s = <<>> THEN <<>>
    ELSE IF Head(s) \in seen THEN Dedup(Tail(s), seen)
    ELSE <<Head(s)>> \o Dedup(Tail(s), seen \cup {Head(s)})

\* concatenation of a sequence of sequences
RECURSIVE Flatten(_)
Flatten(ss) == IF ss = <<>> THEN <<>> ELSE Head(ss) \o Flatten(Tail(ss))

---------------------------------------------------------------------------
(* Project *)

Project_new(path) == [path |-> path]

\* str::replace of one chunk by another text, and of '.' by nothing
RECURSIVE ReplaceChunk(_, _, _)
ReplaceChunk(s, from, to) ==
    IF s = <<>> THEN <<>>
    ELSE (IF Head(s) = from THEN to ELSE <<Head(s)>>) \o ReplaceChunk(Tail(s), from, to)

to_fzf_display(p) ==
    ReplaceChunk(ReplaceChunk(ReplaceChunk(p.path, HOME, <<"~">>), SSD, <<"code">>),
                 DOT, <<>>)

---------------------------------------------------------------------------
(* Option<T>: None is the empty sequence, Some(x) the one-element sequence *)

None == <<>>
Some(x) == <<x>>

---------------------------------------------------------------------------
(* Line store *)

NoFile == [exists |-> FALSE, lines |-> <<>>, mtime |-> 0]

\* OpenOptions::new().create(true).write(true).open(path): creates an empty
\* file when there is none, leaves an existing file and its mtime alone
touch_file(f, now) ==
    IF f.exists THEN f ELSE [exists |-> TRUE, lines |-> <<>>, mtime |-> now]

\* File::open fails on a missing file; lines() yields the lines in order
read_lines(f) ==
    IF f.exists THEN [ok |-> TRUE, lines |-> f.lines]
    ELSE [ok |-> FALSE, lines |-> <<>>]

\* read_lines(..).unwrap_or_else(|_| vec![])
read_lines_or_empty(f) ==
    IF read_lines(f).ok THEN read_lines(f).lines ELSE <<>>

\* File::create truncates or creates, then one writeln! per line
write_lines(lines, now) == [exists |-> TRUE, lines |-> lines, mtime |-> now]

---------------------------------------------------------------------------
(* The directory tree that find walks and that set_current_dir enters *)

Children(d) == IF d = <<"/a">> THEN << <<"/a", "/b">> >> ELSE <<>>

Dirs == { <<"/a">>, <<"/a", "/b">>, <<"/a", DOT>>, <<HOME>> }

\* find -L dir -maxdepth depth -type d: the directory, then what is below it
\* down to depth levels; nothing on stdout for a path that is no directory
RECURSIVE FindBelow(_, _)
FindBelow(d, depth) ==
    <<d>> \o (IF depth = 0 THEN <<>>
              ELSE Flatten([i \in 1..Len(Children(d)) |->
                               FindBelow(Children(d)[i], depth - 1)]))

find(dir, depth) == IF dir \in Dirs THEN FindBelow(dir, depth) ELSE <<>>

---------------------------------------------------------------------------
\* Depth entries: the Regex <anything> --depth <digits>, with two capture groups

DepthSuffix == <<SP, DEPTH, SP>>

\* the places where " --depth " followed by a digit starts
DepthMatches(line) ==
    { i \in 1..Len(line) :
        /\ i + 3 <= Len(line)
        /\ SubSeq(line, i, i + 2) = DepthSuffix
        /\ line[i + 3] \in Digits }

\* Regex::is_match (the pattern is not anchored)
is_match(line) == DepthMatches(line) # {}

\* the greedy first group ends at the last place the rest of the pattern matches
LastMatch(line) == CHOOSE i \in DepthMatches(line) : \A j \in DepthMatches(line) : j <= i

\* the greedy second group: the digits from position i on
RECURSIVE DigitRun(_, _)
DigitRun(line, i) ==
    IF i <= Len(line) /\ line[i] \in Digits
    THEN <<line[i]>> \o DigitRun(line, i + 1)
    ELSE <<>>

capture_dir(line) == SubSeq(line, 1, LastMatch(line) - 1)
capture_depth(line) == DigitRun(line, LastMatch(line) + 3)

\* parse::<u32>() fails above 4294967295 (ten digits); BIG has eleven
parse_u32_ok(ds) == Len(ds) < 10 /\ ~Contains(ds, BIG)

RECURSIVE parse_u32(_)
parse_u32(ds) ==
    IF ds = <<>> THEN 0
    ELSE parse_u32(SubSeq(ds, 1, Len(ds) - 1)) * 10
         + (IF ds[Len(ds)] = "1" THEN 1 ELSE 0)

---------------------------------------------------------------------------
(* Project Source Aggregator *)

\* session.split(':').next(): the text before the first ':'
RECURSIVE split_colon(_)
split_colon(s) ==
    IF s = <<>> \/ Head(s) = ":" THEN <<>> ELSE <<Head(s)>> \o split_colon(Tail(s))

\* tmux list-sessions -F "#{session_name}": the names, ordered by name
RECURSIVE list_sessions(_)
list_sessions(sess) ==
    IF sess = {} THEN <<>>
    ELSE LET least == CHOOSE x \in sess : \A y \in sess \ {x} : StrLess(x, y)
         IN <<least>> \o list_sessions(sess \ {least})

get_tmux_sessions(sess) ==
    LET names == list_sessions(sess)
    IN [i \in 1..Len(names) |-> Project_new(split_colon(names[i]))]

\* what one line of the project list contributes
ExpandLine(line) ==
    IF is_match(line)
    THEN LET dir == capture_dir(line)
             sub_dirs == find(dir, parse_u32(capture_depth(line)))
         IN <<Project_new(dir)>>
            \o [i \in 1..Len(sub_dirs) |-> Project_new(sub_dirs[i])]
    ELSE <<Project_new(line)>>

\* the unwrap() of parse::<u32>() panics
get_projects_panics(pf) ==
    /\ read_lines(pf).ok
    /\ \E i \in 1..Len(pf.lines) :
          is_match(pf.lines[i]) /\ ~parse_u32_ok(capture_depth(pf.lines[i]))

\* everything pushed to `projects` before the final filter
Collected(pf, sess) ==
    (IF read_lines(pf).ok
     THEN Flatten([i \in 1..Len(pf.lines) |-> ExpandLine(pf.lines[i])])
     ELSE <<>>)
    \o get_tmux_sessions(sess)

\* (for C7) the last occurrence of each path is the one kept
RECURSIVE Reverse(_)
Reverse(s) == IF s = <<>> THEN <<>> ELSE Append(Reverse(Tail(s)), Head(s))

get_projects_keeps_last(pf, sess) == Reverse(Dedup(Reverse(Collected(pf, sess)), {}))

get_projects(pf, sess) == Dedup(Collected(pf, sess), {})

---------------------------------------------------------------------------
(* History Ranker *)

\* (for C6) the first candidate with a label stays in the map
projects_map_first_wins(projects) ==
    [l \in {to_fzf_display(projects[i]) : i \in 1..Len(projects)} |->
        projects[CHOOSE i \in 1..Len(projects) :
                    /\ to_fzf_display(projects[i]) = l
                    /\ \A j \in 1..Len(projects) :
                          to_fzf_display(projects[j]) = l => i <= j]]

\* HashMap<label, &Project> collected from the candidates: a later candidate
\* replaces an earlier one with the same label
projects_map(projects) ==
    [l \in {to_fzf_display(projects[i]) : i \in 1..Len(projects)} |->
        projects[CHOOSE i \in 1..Len(projects) :
                    /\ to_fzf_display(projects[i]) = l
                    /\ \A j \in 1..Len(projects) :
                          to_fzf_display(projects[j]) = l => j <= i]]

\* the first loop: the map's project of each history label
HistoryHits(history, projects) ==
    LET m == projects_map(projects)
        hits == SelectSeq(history, LAMBDA h : h \in DOMAIN m)
    IN [i \in 1..Len(hits) |-> m[hits[i]]]

reorder_projects_by_history(history, projects) ==
    Dedup(HistoryHits(history, projects) \o projects, {})

---------------------------------------------------------------------------
(* tmux.rs *)

\* tmux list-sessions prints "<name>: ..." per session; any line starting
\* with "<session_name>:" counts
session_exists(session_name, sess) ==
    \E x \in sess : starts_with(x \o <<":">>, session_name \o <<":">>)

\* env::set_current_dir(dir) succeeds on a directory that can be entered
set_current_dir_ok(dir) == dir \in Dirs

\* (for C9) a failed directory change is ignored
create_session_ignores_chdir(dir, status_ok) ==
    IF status_ok THEN "true" ELSE "false"

\* create_session: "panic" when the directory change fails, otherwise the
\* exit status of tmux new-session -d -s <session_name>
create_session(dir, status_ok) ==
    IF ~set_current_dir_ok(dir) THEN "panic"
    ELSE IF status_ok THEN "true" ELSE "false"

Cmd(op, target) == [op |-> op, target |-> target]

\* (for C11) the session is entered with attach-session wherever the caller is
move_to_tmux_session_attaches(dir, sess, is_inside_tmux, status_ok) ==
    LET tmux_session_name_og == to_fzf_display(dir)
        tmux_session_name == ReplaceChunk(tmux_session_name_og, "~", <<"\\", "~">>)
        check == <<Cmd("list-sessions", tmux_session_name_og)>>
        created == create_session(dir.path, status_ok)
        go == <<Cmd("attach-session", tmux_session_name)>>
    IN IF session_exists(tmux_session_name_og, sess)
       THEN [outcome |-> "ok", tmux |-> check \o go, sessions |-> sess]
       ELSE IF created = "panic"
       THEN [outcome |-> "panic_chdir", tmux |-> check, sessions |-> sess]
       ELSE IF created = "false"
       THEN [outcome |-> "create_failed",
             tmux |-> check \o <<Cmd("new-session", tmux_session_name_og)>>,
             sessions |-> sess]
       ELSE [outcome |-> "ok",
             tmux |-> check \o <<Cmd("new-session", tmux_session_name_og)>> \o go,
             sessions |-> sess \cup {tmux_session_name_og}]

\* what move_to_tmux_session does for the chosen project: the tmux commands
\* it issues, how it ends and the live sessions afterwards
move_to_tmux_session(dir, sess, is_inside_tmux, status_ok) ==
    LET tmux_session_name_og == to_fzf_display(dir)
        tmux_session_name == ReplaceChunk(tmux_session_name_og, "~", <<"\\", "~">>)
        check == <<Cmd("list-sessions", tmux_session_name_og)>>
        created == create_session(dir.path, status_ok)
        go == <<Cmd(IF is_inside_tmux THEN "switch-client" ELSE "attach-session",
                    tmux_session_name)>>
    IN IF session_exists(tmux_session_name_og, sess)
       THEN [outcome |-> "ok", tmux |-> check \o go, sessions |-> sess]
       ELSE IF created = "panic"
       THEN [outcome |-> "panic_chdir", tmux |-> check, sessions |-> sess]
       ELSE IF created = "false"
       THEN [outcome |-> "create_failed",
             tmux |-> check \o <<Cmd("new-session", tmux_session_name_og)>>,
             sessions |-> sess]
       ELSE [outcome |-> "ok",
             tmux |-> check \o <<Cmd("new-session", tmux_session_name_og)>> \o go,
             sessions |-> sess \cup {tmux_session_name_og}]

---------------------------------------------------------------------------
(* The default flow *)

\* (for C12) the first path is left out
Paths_without_first(projects) == [i \in 1..(Len(projects) - 1) |-> projects[i + 1].path]

Paths(projects) == [i \in 1..Len(projects) |-> projects[i].path]
Labels(projects) == [i \in 1..Len(projects) |-> to_fzf_display(projects[i])]

\* the cache is used when it exists and is not older than the project list
cache_is_valid(cf, pf) == cf.exists /\ cf.mtime >= pf.mtime

\* labels of the candidates that are not the current session
project_set(projects, current_session) ==
    { to_fzf_display(projects[i]) :
        i \in { j \in 1..Len(projects) :
                  ~(current_session # None
                    /\ to_fzf_display(Project_new(projects[j].path)) = current_session[1]) } }

\* (for C15) the set of labels already listed is not consulted
fzf_through_unseen(history_lines, projects, current_session) ==
    SelectSeq(history_lines,
              LAMBDA item : item \in project_set(projects, current_session))
    \o Labels(reorder_projects_by_history(history_lines, projects))

\* the list written to the picker's stdin
fzf_through(history_lines, projects, current_session) ==
    Dedup(SelectSeq(history_lines,
                    LAMBDA item : item \in project_set(projects, current_session))
          \o Labels(reorder_projects_by_history(history_lines, projects)),
          {})

\* (for C4) the early return left out
is_cancelled_never(selected_str) == FALSE

\* the early return on an empty selection
is_cancelled(selected_str) == selected_str = <<>>

\* (for C3) the old entry of the selection is not removed
new_history_keeps_old(history_lines, selected_str) ==
    truncate(<<selected_str>> \o history_lines, HistoryCap)

\* the selection first, the rest of the old history after it, cut at the cap
new_history(history_lines, selected_str) ==
    truncate(<<selected_str>>
             \o SelectSeq(history_lines, LAMBDA item : item # selected_str),
             HistoryCap)

\* display-message -p #S: the name of a session of the running server, or a
\* failure
CurrentSessionOutcomes == { Some(x) : x \in sessions } \cup {None}

\* env::var("TMUX"): set only in a client of a running server, where
\* display-message succeeds
InsideTmuxOutcomes(current_session) ==
    IF current_session = None THEN {FALSE} ELSE BOOLEAN

\* fzf prints one of the lines it was given, or nothing
PickerOutcomes(input) == {<<>>} \cup { input[i] : i \in 1..Len(input) }

\* a user who always leaves the picker without selecting
PickerCancels(input) == {<<>>}

\* the picker with a user who may select, or with one who never does
Picker(selects, input) ==
    IF selects THEN PickerOutcomes(input) ELSE PickerCancels(input)

IdleRun ==
    [cmd |-> "none", outcome |-> "ok", aggregated |-> FALSE, projects |-> <<>>,
     history_lines |-> <<>>, fzf_through |-> <<>>, current_session |-> None,
     is_inside_tmux |-> FALSE, selected_str |-> <<>>, tmux |-> <<>>,
     lines |-> <<>>, depth_input |-> <<>>, picked |-> <<>>]

\* the history file's mtime is never read: it is kept at 0
touch_history(f) == touch_file(f, 0)
write_history(lines) == write_lines(lines, 0)

\* main_execution when it panics before the picker runs: on metadata() of a
\* missing project list, or on the unwrap() in get_projects
MainPanics ==
    \/ ~projects_file.exists
    \/ ~cache_is_valid(cache_file, projects_file) /\ get_projects_panics(projects_file)

MainPanic ==
    /\ MainPanics
    /\ history_file' = touch_history(history_file)
    /\ run' = [IdleRun EXCEPT !.cmd = "main",
                              !.outcome = IF projects_file.exists THEN "panic_parse"
                                          ELSE "panic_metadata",
                              !.history_lines = read_lines_or_empty(history_file)]
    /\ UNCHANGED <<projects_file, cache_file, sessions, clock, edited, selections, pin,
                   resolved>>

\* the session-activation part of main_execution, for a selection that is
\* not empty
MainSelected(base, history_lines, reordered_projects, selected_str, current_session) ==
    LET hits == { i \in 1..Len(reordered_projects) :
                    to_fzf_display(reordered_projects[i]) = selected_str }
        idx == CHOOSE i \in hits : \A j \in hits : i <= j
    IN /\ history_file' = write_history(new_history(history_lines, selected_str))
       /\ selections' = <<selected_str>>
              \o SelectSeq(selections, LAMBDA x : x # selected_str)
       /\ IF hits = {}
          THEN /\ run' = [base EXCEPT !.outcome = "L", !.selected_str = selected_str]
               /\ UNCHANGED sessions
          ELSE \E is_inside_tmux \in InsideTmuxOutcomes(current_session),
                  status_ok \in BOOLEAN :
                 \E moved \in {move_to_tmux_session(reordered_projects[idx], sessions,
                                                    is_inside_tmux, status_ok)} :
                    /\ run' = [base EXCEPT !.outcome = moved.outcome,
                                           !.selected_str = selected_str,
                                           !.is_inside_tmux = is_inside_tmux,
                                           !.tmux = moved.tmux]
                    /\ sessions' = moved.sessions

\* main_execution from the cache decision on (each intermediate value is
\* bound once, by \E over a one-element set)
MainRun(current_session, selects) ==
    /\ ~MainPanics
    /\ \E history_lines \in {read_lines_or_empty(touch_history(history_file))},
          use_cache \in {cache_is_valid(cache_file, projects_file)} :
       \E projects \in {IF use_cache
                        THEN [i \in 1..Len(read_lines(cache_file).lines) |->
                                Project_new(read_lines(cache_file).lines[i])]
                        ELSE get_projects(projects_file, sessions)} :
       \E reordered_projects \in {reorder_projects_by_history(history_lines, projects)},
          input \in {fzf_through(history_lines, projects, current_session)} :
       \E base \in {[IdleRun EXCEPT !.cmd = "main", !.aggregated = ~use_cache,
                                    !.projects = projects,
                                    !.history_lines = history_lines,
                                    !.fzf_through = input,
                                    !.current_session = current_session]} :
          /\ cache_file' = IF use_cache THEN cache_file
                           ELSE write_lines(Paths(projects), clock)
          /\ edited' = IF use_cache THEN edited ELSE FALSE
          /\ resolved' = IF use_cache THEN resolved
                         ELSE [projects |-> Some(projects), by |-> "main"]
          /\ \E picked \in Picker(selects, input) :
               IF is_cancelled(trim(picked))
               THEN /\ history_file' = touch_history(history_file)
                    /\ run' = [base EXCEPT !.outcome = "cancel"]
                    /\ UNCHANGED <<sessions, selections>>
               ELSE MainSelected(base, history_lines, reordered_projects, trim(picked),
                                 current_session)
    /\ UNCHANGED <<projects_file, clock, pin>>

main_execution(selects) ==
    \/ MainPanic
    \/ \E current_session \in CurrentSessionOutcomes : MainRun(current_session, selects)

-----
(* The project-list subcommands *)

\* directories the user passes to add (or runs it in)
AddArgs == { <<"/a">>, <<"s">> }
\* the same with a path that ends in a space (add "/a ")
ListAddArgs == AddArgs \cup { <<"/a", SP>> }

\* what the user types at the depth prompt
DepthInputs == { <<>>, <<"1">> }

\* (for C13) the line is pushed without looking for it
add_lines_always_pushes(lines, dir) == Append(lines, dir)

\* lines.push(dir) unless the line is there already
add_lines(lines, dir) == IF Contains(lines, dir) THEN lines ELSE Append(lines, dir)

add_project(args, max_lines) ==
    \E dir \in args :
       LET lines == read_lines_or_empty(touch_file(projects_file, clock))
       IN /\ Len(add_lines(lines, dir)) <= max_lines
          /\ projects_file' = write_lines(add_lines(lines, dir), clock)
          /\ edited' = (edited \/ add_lines(lines, dir) # projects_file.lines
                               \/ ~projects_file.exists)
          /\ run' = [IdleRun EXCEPT !.cmd = "add", !.selected_str = dir,
                                    !.lines = lines]
          /\ UNCHANGED <<history_file, cache_file, sessions, clock, selections, pin, resolved>>

\* the lines that are not the selected one
delete_lines(lines, selected_str) ==
    SelectSeq(lines, LAMBDA line : line # selected_str)

delete_project ==
    LET lines == read_lines_or_empty(projects_file)
    IN \E picked \in PickerOutcomes(lines) :
          IF picked # <<>>
          THEN /\ projects_file' = write_lines(delete_lines(lines, trim(picked)), clock)
               /\ edited' = (edited \/ delete_lines(lines, trim(picked)) # lines)
               /\ run' = [IdleRun EXCEPT !.cmd = "delete", !.selected_str = trim(picked),
                                         !.lines = lines, !.picked = picked]
               /\ UNCHANGED <<history_file, cache_file, sessions, clock, selections, pin, resolved>>
          ELSE /\ run' = [IdleRun EXCEPT !.cmd = "delete", !.outcome = "cancel",
                                         !.lines = lines]
               /\ UNCHANGED <<projects_file, history_file, cache_file, sessions, clock,
                              edited, selections, pin, resolved>>

\* the line set_depth pushes for the selected entry
depth_line(selected_str, depth_input) ==
    IF depth_input = <<>> THEN selected_str
    ELSE selected_str \o DepthSuffix \o depth_input

\* drop the depth entries that start with the selection, push the new line, sort
set_depth_lines(lines, selected_str, depth_input) ==
    sort(Append(SelectSeq(lines, LAMBDA line :
                             ~is_match(line) \/ ~starts_with(line, selected_str)),
                depth_line(selected_str, depth_input)))

set_depth(max_lines, max_len) ==
    LET lines == read_lines_or_empty(projects_file)
    IN \E picked \in PickerOutcomes(lines), typed \in DepthInputs :
          IF picked # <<>>
          THEN LET selected_str == trim(picked)
                   depth_input == trim(typed)
                   new_lines == set_depth_lines(lines, selected_str, depth_input)
               IN /\ Len(new_lines) <= max_lines
                  /\ Len(depth_line(selected_str, depth_input)) <= max_len
                  /\ projects_file' = write_lines(new_lines, clock)
                  /\ edited' = (edited \/ new_lines # lines)
                  /\ run' = [IdleRun EXCEPT !.cmd = "set-depth",
                                            !.selected_str = selected_str,
                                            !.lines = lines,
                                            !.depth_input = depth_input]
                  /\ UNCHANGED <<history_file, cache_file, sessions, clock, selections, pin, resolved>>
          ELSE /\ run' = [IdleRun EXCEPT !.cmd = "set-depth", !.outcome = "cancel",
                                         !.lines = lines]
               /\ UNCHANGED <<projects_file, history_file, cache_file, sessions, clock,
                              edited, selections, pin, resolved>>

clear_cache ==
    /\ cache_file' = IF cache_file.exists THEN NoFile ELSE cache_file
    /\ edited' = (edited \/ cache_file.exists)
    /\ run' = [IdleRun EXCEPT !.cmd = "clear-cache",
                              !.outcome = IF cache_file.exists THEN "ok" ELSE "none"]
    /\ UNCHANGED <<projects_file, history_file, sessions, clock, selections, pin,
                   resolved>>

list_projects ==
    /\ run' = IF get_projects_panics(projects_file)
              THEN [IdleRun EXCEPT !.cmd = "list", !.outcome = "panic_parse"]
              ELSE [IdleRun EXCEPT !.cmd = "list", !.aggregated = TRUE,
                                   !.projects = get_projects(projects_file, sessions)]
    /\ resolved' = IF get_projects_panics(projects_file) THEN resolved
                   ELSE [resolved EXCEPT
                           !.projects = Some(get_projects(projects_file, sessions)),
                           !.by = "list"]
    /\ UNCHANGED <<projects_file, history_file, cache_file, sessions, clock, edited,
                   selections, pin>>

---------------------------------------------------------------------------
(* The environment: time passes, sessions come and go outside the program *)

Tick ==
    /\ clock < MaxClock
    /\ clock' = clock + 1
    /\ run' = IdleRun
    /\ UNCHANGED <<projects_file, history_file, cache_file, sessions, edited,
                   selections, pin, resolved>>

SessionStart ==
    /\ <<"s">> \notin sessions
    /\ sessions' = sessions \cup {<<"s">>}
    /\ run' = IdleRun
    /\ UNCHANGED <<projects_file, history_file, cache_file, clock, edited,
                   selections, pin, resolved>>

SessionKill ==
    \E x \in sessions :
       /\ sessions' = sessions \ {x}
       /\ run' = IdleRun
       /\ UNCHANGED <<projects_file, history_file, cache_file, clock, edited,
                      selections, pin, resolved>>

-------------------------------------------------------------------------------------------------------------------------------------------------
(* Specifications *)

NoPin == [phase |-> "none"]

\* get_projects has not run
NotResolved == [projects |-> None, by |-> "none"]

\* a new home directory: no project list, no history, no cache, no tmux server
Init ==
    /\ projects_file = NoFile
    /\ history_file = NoFile
    /\ cache_file = NoFile
    /\ sessions = {}
    /\ clock = 0
    /\ edited = FALSE
    /\ selections = <<>>
    /\ run = IdleRun
    /\ pin = NoPin
    /\ resolved = NotResolved

\* Every subcommand, with a user who never selects in the default flow: the
\* project list, the cache and the clock
Next ==
    \/ main_execution(FALSE)
    \/ add_project(AddArgs, MaxLines)
    \/ delete_project
    \/ set_depth(MaxLines, MaxLineLen)
    \/ clear_cache
    \/ list_projects
    \/ Tick
    \/ SessionStart
    \/ SessionKill

Spec == Init /\ [][Next]_vars

\* The default flow with a user who selects, in a new home directory or over
\* a project list written earlier by add "/a", set-depth 1, delete "/a", add "s"
FlowList == << <<"/a">> \o DepthSuffix \o <<"1">>, <<"s">> >>

FlowInit ==
    /\ projects_file \in {NoFile, write_lines(FlowList, 0)}
    /\ history_file = NoFile
    /\ cache_file = NoFile
    /\ sessions = {}
    /\ clock = 0
    /\ edited = FALSE
    /\ selections = <<>>
    /\ run = IdleRun
    /\ pin = NoPin
    /\ resolved = NotResolved

FlowNext ==
    \/ main_execution(TRUE)
    \/ SessionStart
    \/ SessionKill

FlowSpec == FlowInit /\ [][FlowNext]_vars

\* The project-list subcommands alone, with longer lists and lines
ListNext ==
    \/ add_project(ListAddArgs, ListMaxLines)
    \/ delete_project
    \/ set_depth(ListMaxLines, ListMaxLineLen)

ListSpec == Init /\ [][ListNext]_vars

---------------------------------------------------------------------------
(* Specifications of the pure functions: inputs drawn in Init, one action
   that applies the function *)

SeqsUpTo(S, n) == UNION { [1..k -> S] : k \in 0..n }

\* candidate paths (two of them have the label "/a") and history labels (one
\* of them is no candidate's label)
ReorderPaths == { <<"/a">>, <<"/a", DOT>>, <<"/b">>, <<HOME>> }
ReorderLabels == { <<"/a">>, <<"/b">>, <<"~">>, <<"s">> }

PinInit(p) ==
    /\ pin = p
    /\ projects_file = NoFile
    /\ history_file = NoFile
    /\ cache_file = NoFile
    /\ sessions = {}
    /\ clock = 0
    /\ edited = FALSE
    /\ selections = <<>>
    /\ run = IdleRun
    /\ resolved = NotResolved

ReorderInit ==
    \E history \in SeqsUpTo(ReorderLabels, MaxSeq),
       paths \in { c \in SeqsUpTo(ReorderPaths, MaxSeq) : NoDup(c) } :
       PinInit([phase |-> "reorder", history |-> history,
                projects |-> [i \in 1..Len(paths) |-> Project_new(paths[i])]])

Reorder ==
    /\ pin.phase = "reorder"
    /\ pin' = [phase |-> "reordered", history |-> pin.history, projects |-> pin.projects,
               out |-> reorder_projects_by_history(pin.history, pin.projects)]
    /\ UNCHANGED <<projects_file, history_file, cache_file, sessions, clock, edited,
                   selections, run, resolved>>

ReorderSpec == ReorderInit /\ [][Reorder]_vars

\* the picker's input for a history, candidates and the current session's
\* name: none, the label of two candidates, or the label of one
PickerSessions == { None, Some(<<"/a">>), Some(<<"~">>) }

PickerInit ==
    \E history \in SeqsUpTo(ReorderLabels, MaxSeq),
       paths \in { c \in SeqsUpTo(ReorderPaths, MaxSeq) : NoDup(c) },
       current_session \in PickerSessions :
       PinInit([phase |-> "picker", history |-> history,
                projects |-> [i \in 1..Len(paths) |-> Project_new(paths[i])],
                current_session |-> current_session])

PickerInput ==
    /\ pin.phase = "picker"
    /\ pin' = [phase |-> "picked", history |-> pin.history, projects |-> pin.projects,
               current_session |-> pin.current_session,
               out |-> fzf_through(pin.history, pin.projects, pin.current_session)]
    /\ UNCHANGED <<projects_file, history_file, cache_file, sessions, clock, edited,
                   selections, run, resolved>>

PickerSpec == PickerInit /\ [][PickerInput]_vars

\* project-list lines and session names given to get_projects
ResolveLines ==
    { <<"/a">>, <<"/a", "/b">>, <<"s">>,
      <<"/a">> \o DepthSuffix \o <<"0">>,
      <<"/a">> \o DepthSuffix \o <<"1">>,
      <<"/a">> \o DepthSuffix \o <<BIG>>,
      <<"/a">> \o DepthSuffix \o <<"1", "s">> }
ResolveSessions == { <<"s">>, <<"/a">>, <<"code">> }

ResolveInit ==
    \E lines \in SeqsUpTo(ResolveLines, MaxSeq), sess \in SUBSET ResolveSessions :
       PinInit([phase |-> "resolve", lines |-> lines, sessions |-> sess])

Resolve ==
    /\ pin.phase = "resolve"
    /\ pin' = [phase |-> "resolved", lines |-> pin.lines, sessions |-> pin.sessions,
               panicked |-> get_projects_panics(write_lines(pin.lines, 0)),
               expanded |-> [i \in 1..Len(pin.lines) |-> ExpandLine(pin.lines[i])],
               out |-> IF get_projects_panics(write_lines(pin.lines, 0)) THEN <<>>
                       ELSE get_projects(write_lines(pin.lines, 0), pin.sessions)]
    /\ UNCHANGED <<projects_file, history_file, cache_file, sessions, clock, edited,
                   selections, run, resolved>>

ResolveSpec == ResolveInit /\ [][Resolve]_vars

---------------------------------------------------------------------------
(* Claims about the default flow, under FlowSpec *)

\* the invocation got as far as the picker
ReachedPicker ==
    run.cmd = "main" /\ run.outcome \notin {"panic_metadata", "panic_parse"}

\* C1: in the default flow, when the current session's name is the display
\* label of a candidate, that label is not in the list written to the picker.
C1_CurrentSessionNotOffered ==
    (/\ ReachedPicker
     /\ run.current_session # None
     /\ \E i \in 1..Len(run.projects) :
           to_fzf_display(run.projects[i]) = run.current_session[1])
    => ~Contains(run.fzf_through, run.current_session[1])

\* C3: the history log has at most HistoryCap entries and no label twice; it
\* is the labels selected so far in order of their last selection, most recent
\* first, cut at the cap; a selection already in the log moves to the front
\* and keeps the length; a new selection into a full log drops the last
\* (least recently selected) entry.
C3_HistoryLog ==
    LET h == history_file.lines
        old == run.history_lines
        sel == run.selected_str
    IN /\ Len(h) <= HistoryCap
       /\ NoDup(h)
       /\ h = truncate(selections, HistoryCap)
       /\ NoDup(selections)
       /\ (ReachedPicker /\ sel # <<>>) =>
            /\ h[1] = sel
            /\ selections[1] = sel
            /\ Contains(old, sel) => Len(h) = Len(old)
            /\ (~Contains(old, sel) /\ Len(old) < HistoryCap) => h = <<sel>> \o old
            /\ (~Contains(old, sel) /\ Len(old) = HistoryCap) =>
                  h = <<sel>> \o SubSeq(old, 1, HistoryCap - 1)

\* a selection into a full log that drops its oldest entry, after an earlier
\* re-selection
C3_Witness ==
    /\ ReachedPicker
    /\ run.selected_str # <<>>
    /\ Len(run.history_lines) = HistoryCap
    /\ ~Contains(run.history_lines, run.selected_str)
    /\ Len(selections) > HistoryCap

\* C4: when the picker returns nothing, the history is as it was read and no
\* session check, create, switch-client or attach-session command is issued.
C4_EmptySelectionNoOp ==
    (ReachedPicker /\ run.selected_str = <<>>) =>
        /\ history_file.lines = run.history_lines
        /\ run.tmux = <<>>
        /\ run.outcome = "cancel"

\* an empty selection over a history that has entries
C4_Witness ==
    /\ ReachedPicker
    /\ run.selected_str = <<>>
    /\ run.history_lines # <<>>
    /\ run.fzf_through # <<>>

\* the tmux commands of the last invocation, by name
TmuxOps == { run.tmux[i].op : i \in 1..Len(run.tmux) }

\* session activation found no session and did not get one created
CreationFailed == ReachedPicker /\ run.outcome \in {"create_failed", "panic_chdir"}

\* C9 as claimed: whenever creating the missing session fails, for any reason,
\* the invocation reports the failure without crashing, issues neither
\* switch-client nor attach-session, and the history holds the selection.
C9_AnyCreationFailureReported ==
    CreationFailed =>
        /\ run.outcome = "create_failed"
        /\ TmuxOps \cap {"switch-client", "attach-session"} = {}
        /\ history_file.lines[1] = run.selected_str

\* the project the selection names: the first candidate, in ranked order, with
\* that label
SelectedProject ==
    LET r == reorder_projects_by_history(run.history_lines, run.projects)
    IN r[CHOOSE i \in 1..Len(r) :
            /\ to_fzf_display(r[i]) = run.selected_str
            /\ \A j \in 1..(i - 1) : to_fzf_display(r[j]) # run.selected_str]

\* C9, amended: when the session is missing and tmux new-session fails in a
\* directory that could be entered, the failure is reported, neither
\* switch-client nor attach-session is issued and the run ends normally; when
\* the project's path cannot be entered the run panics before new-session is
\* issued; in both cases the history holds the selection at its front and the
\* cache holds the candidates of this run.
C9_CreationFailure ==
    CreationFailed =>
        /\ run.tmux[1] = Cmd("list-sessions", run.selected_str)
        /\ TmuxOps \cap {"switch-client", "attach-session"} = {}
        /\ history_file.lines[1] = run.selected_str
        /\ cache_file.exists /\ cache_file.lines = Paths(run.projects)
        /\ run.outcome = "create_failed" <=> SelectedProject.path \in Dirs
        /\ run.outcome = "create_failed" <=> "new-session" \in TmuxOps

\* new-session failed for a project whose directory exists
C9_Witness ==
    /\ CreationFailed
    /\ run.outcome = "create_failed"
    /\ run.selected_str = <<"/a", "/b">>

\* the positions of the last invocation's tmux commands named in ops
OpsAt(log, ops) == { i \in 1..Len(log) : log[i].op \in ops }

\* C11 as claimed: every session-activation run issues new-session exactly
\* when the existence check found no session of the chosen label, at most
\* once, and afterwards exactly one of switch-client (exactly when the caller
\* is inside tmux) and attach-session, never both and never before the session
\* exists.
C11_TwoPaths ==
    [][(run'.cmd = "main" /\ run'.tmux # <<>>) =>
         LET log == run'.tmux
             found == run'.selected_str \in sessions
             creates == OpsAt(log, {"new-session"})
             gos == OpsAt(log, {"switch-client", "attach-session"})
         IN /\ log[1] = Cmd("list-sessions", run'.selected_str)
            /\ Cardinality(creates) = IF found THEN 0 ELSE 1
            /\ Cardinality(gos) = 1
            /\ \A i \in gos :
                  /\ log[i].op = "switch-client" <=> run'.is_inside_tmux
                  /\ \A j \in creates : j < i
                  /\ run'.selected_str \in sessions'
       ]_vars

\* C11, amended: a session-activation run first checks for the session; it
\* issues new-session at most once, only when the check found none, and then
\* always unless the project's path cannot be entered (the run panics);
\* it issues exactly one of switch-client (exactly when the caller is inside
\* tmux) and attach-session as its last command when the session was found
\* or new-session succeeded, and neither of them otherwise; the session exists
\* when that command is issued.
C11_ActivationRun ==
    [][(run'.cmd = "main" /\ run'.tmux # <<>>) =>
         LET log == run'.tmux
             found == run'.selected_str \in sessions
             creates == OpsAt(log, {"new-session"})
             gos == OpsAt(log, {"switch-client", "attach-session"})
         IN /\ log[1] = Cmd("list-sessions", run'.selected_str)
            /\ OpsAt(log, {"list-sessions"}) = {1}
            /\ Cardinality(creates) <= 1
            /\ found => creates = {}
            /\ ~found => (creates = {} <=> run'.outcome = "panic_chdir")
            /\ \A j \in creates : log[j].target = run'.selected_str
            /\ gos = IF run'.outcome = "ok" THEN {Len(log)} ELSE {}
            /\ run'.outcome = "ok" <=>
                  (found \/ (creates # {} /\ run'.selected_str \in sessions'))
            /\ \A i \in gos :
                  /\ log[i].op = (IF run'.is_inside_tmux THEN "switch-client"
                                  ELSE "attach-session")
                  /\ run'.selected_str \in sessions'
            /\ run'.outcome # "ok" => sessions' = sessions
       ]_vars

\* a session that was missing is created and entered from inside tmux
C11_Witness ==
    /\ ReachedPicker
    /\ run.outcome = "ok"
    /\ run.is_inside_tmux
    /\ TmuxOps = {"list-sessions", "new-session", "switch-client"}

---------------------------------------------------------------------------
(* Claims about the cache and the missing files, under Spec *)

\* the paths of the projects get_projects returned, if it has run
PathsOfSome(opt) == [i \in 1..Len(opt[1]) |-> opt[1][i].path]

C2_CacheDecision ==
    [][run'.cmd = "main" =>
         IF ~cache_file.exists \/ cache_file.mtime < projects_file.mtime
         THEN /\ run'.aggregated
              /\ run'.projects = get_projects(projects_file, sessions)
              /\ cache_file'.exists
              /\ cache_file'.lines = Paths(get_projects(projects_file, sessions))
         ELSE /\ ~run'.aggregated
              /\ Paths(run'.projects) = cache_file.lines
              /\ cache_file' = cache_file]_vars

\* C5: after a project-list edit or a clear-cache, the next default-flow run
\* re-runs the aggregator and rewrites the cache.
C5_EditInvalidatesCache ==
    ReachedPicker => ~edited

\* C8: a missing project list, history or cache is empty content, never an
\* error: the default flow reaches the picker without the project list.
C8_MissingFilesAreEmpty ==
    run.cmd = "main" => run.outcome # "panic_metadata"

---------------------------------------------------------------------------
(* Claims about the pure functions *)

\* position of the first x in s (0 when there is none)
FirstIdx(s, x) ==
    IF Contains(s, x) THEN CHOOSE i \in 1..Len(s) : s[i] = x /\ \A j \in 1..(i - 1) : s[j] # x
    ELSE 0

IsPermutation(out, in) ==
    /\ Len(out) = Len(in)
    /\ NoDup(out)
    /\ { out[i] : i \in 1..Len(out) } = { in[i] : i \in 1..Len(in) }

\* the candidate's label occurs in the history
Visited(p) == Contains(pin.history, to_fzf_display(p))

\* the candidate is the last one carrying its label
LastCarrier(p) ==
    \A j \in 1..Len(pin.projects) :
       to_fzf_display(pin.projects[j]) = to_fzf_display(p)
          => j <= FirstIdx(pin.projects, p)

\* out lists the candidates in the set first before all others; those by
\* the first occurrence of their label in the history, the others in the
\* candidates' order
RankedBy(out, first) ==
    \A i, j \in 1..Len(out) :
       i < j =>
         /\ out[j] \in first => out[i] \in first
         /\ (out[i] \in first /\ out[j] \in first) =>
               FirstIdx(pin.history, to_fzf_display(out[i]))
                  <= FirstIdx(pin.history, to_fzf_display(out[j]))
         /\ (out[i] \notin first /\ out[j] \notin first) =>
               FirstIdx(pin.projects, out[i]) < FirstIdx(pin.projects, out[j])

\* C6 as claimed: the result is a permutation of the candidates; every
\* candidate whose label occurs in the history comes before every other one,
\* those by first occurrence of their label, the others in original order;
\* of candidates sharing a label the last one is emitted at the history
\* position.
C6_VisitedFirst ==
    pin.phase = "reordered" =>
        /\ IsPermutation(pin.out, pin.projects)
        /\ RankedBy(pin.out, { pin.projects[i] : i \in { k \in 1..Len(pin.projects) :
                                                        Visited(pin.projects[k]) } })
        /\ \A i, j \in 1..Len(pin.out) :
              (i < j /\ to_fzf_display(pin.out[i]) = to_fzf_display(pin.out[j])
                     /\ Visited(pin.out[i])) => LastCarrier(pin.out[i])

\* C6, amended: the result is a permutation of the candidates; the candidates
\* that are the last carrier of a label occurring in the history come first,
\* by first occurrence of their label in the history (no two share a place);
\* all other candidates, earlier carriers of such a label among them, follow
\* in their original relative order.
C6_LastCarriersFirst ==
    pin.phase = "reordered" =>
        /\ IsPermutation(pin.out, pin.projects)
        /\ RankedBy(pin.out, { pin.projects[i] : i \in { k \in 1..Len(pin.projects) :
                                  Visited(pin.projects[k]) /\ LastCarrier(pin.projects[k]) } })
        /\ \A i, j \in 1..Len(pin.out) :
              (i < j /\ Visited(pin.out[i]) /\ LastCarrier(pin.out[i])
                     /\ Visited(pin.out[j]) /\ LastCarrier(pin.out[j]))
                 => to_fzf_display(pin.out[i]) # to_fzf_display(pin.out[j])

\* two candidates share a visited label and the earlier one is ranked after a
\* candidate that was never visited
C6_Witness ==
    /\ pin.phase = "reordered"
    /\ \E i, j, k \in 1..Len(pin.out) :
          /\ i < j /\ j < k
          /\ to_fzf_display(pin.out[i]) = to_fzf_display(pin.out[k])
          /\ Visited(pin.out[i])
          /\ ~Visited(pin.out[j])
          /\ pin.out # pin.projects

\* C7: the result of get_projects holds each path once, at the place of its
\* first occurrence in the list entries with their expansions followed by the
\* session names, and nothing else.
C7_FirstOccurrenceDedup ==
    (pin.phase = "resolved" /\ ~pin.panicked) =>
        LET all == Paths(Collected(write_lines(pin.lines, 0), pin.sessions))
            out == Paths(pin.out)
        IN /\ NoDup(out)
           /\ { out[i] : i \in 1..Len(out) } = { all[i] : i \in 1..Len(all) }
           /\ \A i, j \in 1..Len(out) :
                 i < j => FirstIdx(all, out[i]) < FirstIdx(all, out[j])

\* a path that is a list line, a walk result and a session name
C7_Witness ==
    /\ pin.phase = "resolved"
    /\ ~pin.panicked
    /\ <<"/a">> \in pin.sessions
    /\ Contains(pin.lines, <<"/a">>)
    /\ Contains(pin.lines, <<"/a">> \o DepthSuffix \o <<"1">>)
    /\ Len(pin.out) < Len(Collected(write_lines(pin.lines, 0), pin.sessions))

---------------------------------------------------------------------------
(* Claims about the project-list subcommands, under ListSpec *)

\* the path of a project-list entry: the line without its depth suffix
EntryPath(line) == IF is_match(line) THEN capture_dir(line) ELSE line

Count(s, x) == Cardinality({ i \in 1..Len(s) : s[i] = x })

Sorted(s) == \A i, j \in 1..Len(s) : i < j => ~StrLess(s[j], s[i])

\* C10: after set-depth of the entry for path P with depth N the list holds
\* exactly one entry for P, "P --depth N" (the bare P when N is empty); the
\* entries for other paths are kept as they were; the list is sorted.
C10_SetDepthRewritesEntry ==
    (run.cmd = "set-depth" /\ run.outcome = "ok") =>
        LET P == EntryPath(run.selected_str)
            want == IF run.depth_input = <<>> THEN P
                    ELSE P \o DepthSuffix \o run.depth_input
            new == projects_file.lines
        IN /\ \A i \in 1..Len(new) : EntryPath(new[i]) = P => new[i] = want
           /\ Count(new, want) = 1
           /\ \A i \in 1..Len(run.lines) :
                 EntryPath(run.lines[i]) # P =>
                    Count(new, run.lines[i]) = Count(run.lines, run.lines[i])
           /\ \A i \in 1..Len(new) :
                 EntryPath(new[i]) # P => Contains(run.lines, new[i])
           /\ Sorted(new)

\* C13: add P appends P as the last line of the project list when no line
\* equals P and leaves the list's lines as they are otherwise, so the lines
\* that were there keep their content and order; a second add P after add P
\* changes no line.
C13_AddAppendsOnce ==
    [][run'.cmd = "add" =>
         LET P == run'.selected_str
             old == projects_file.lines
             new == projects_file'.lines
         IN /\ run'.lines = old
            /\ projects_file'.exists
            /\ new = IF \E i \in 1..Len(old) : old[i] = P THEN old ELSE old \o <<P>>
            /\ SubSeq(new, 1, Len(old)) = old
            /\ (run.cmd = "add" /\ run.selected_str = P) => new = old
       ]_vars

\* add of a path that is already a line of the list, and not the last one
C13_Witness ==
    /\ run.cmd = "add"
    /\ Len(run.lines) >= 2
    /\ run.lines[1] = run.selected_str
    /\ projects_file.lines = run.lines

\* C16: from an empty project list, after any sequence of add, delete and
\* set-depth the project list has no two identical lines and no two entries,
\* bare or with a depth, for the same path.
C16_OneEntryPerPath ==
    LET lines == projects_file.lines
    IN \A i, j \in 1..Len(lines) :
          i # j => /\ lines[i] # lines[j]
                   /\ EntryPath(lines[i]) # EntryPath(lines[j])

\* C17: delete removes from the project list exactly the lines equal to the
\* entry selected in the picker and keeps every other line, unchanged and in
\* its order; when the picker returns nothing the project-list file is not
\* written.
C17_DeleteRemovesSelected ==
    [][run'.cmd = "delete" =>
         IF run'.outcome = "cancel"
         THEN projects_file' = projects_file
         ELSE /\ \E i \in 1..Len(projects_file.lines) :
                    projects_file.lines[i] = run'.picked
              /\ projects_file'.lines =
                    SelectSeq(projects_file.lines, LAMBDA line : line # run'.picked)
       ]_vars

---------------------------------------------------------------------------
(* Claims about malformed depth entries, under ResolveSpec *)

\* the line is <dir> --depth <digits> and nothing else, the digits a number
\* that fits 32 bits
WellFormedDepthEntry(line) ==
    \E i \in 1..Len(line) :
       /\ i + 3 <= Len(line)
       /\ SubSeq(line, i, i + 2) = DepthSuffix
       /\ \A k \in (i + 3)..Len(line) : line[k] \in Digits \ {BIG}
       /\ Len(line) - (i + 2) < 10

\* C14: for every project-list line that is not exactly <dir> --depth <digits>
\* with a representable number (digits followed by other text, for example),
\* get_projects does not abort and the line contributes exactly one project,
\* the raw line, without a directory walk.
C14_MalformedDepthIsPlainPath ==
    pin.phase = "resolved" =>
        \A i \in 1..Len(pin.lines) :
           ~WellFormedDepthEntry(pin.lines[i]) =>
              /\ ~pin.panicked
              /\ pin.expanded[i] = <<Project_new(pin.lines[i])>>
              /\ Contains(pin.out, Project_new(pin.lines[i]))

---------------------------------------------------------------------------
(* Claims about the picker's input, under PickerSpec *)

\* the display labels of the candidates, and those that are not the current
\* session's name
CandidateLabels == { to_fzf_display(pin.projects[i]) : i \in 1..Len(pin.projects) }
OfferedLabels ==
    IF pin.current_session = None THEN CandidateLabels
    ELSE CandidateLabels \ {pin.current_session[1]}

\* C15: the list written to the picker has no label twice and only labels of
\* candidates; it starts with the history's labels that are in the filtered
\* candidate-label set, in history order, each once; every candidate label
\* that occurs in the history comes before every candidate label that does
\* not.
C15_PickerInput ==
    pin.phase = "picked" =>
        LET out == pin.out
            InHistory(l) == \E k \in 1..Len(pin.history) : pin.history[k] = l
            first == Dedup(SelectSeq(pin.history, LAMBDA l : l \in OfferedLabels), {})
        IN /\ \A i, j \in 1..Len(out) : i # j => out[i] # out[j]
           /\ \A i \in 1..Len(out) : out[i] \in CandidateLabels
           /\ Len(first) <= Len(out)
           /\ SubSeq(out, 1, Len(first)) = first
           /\ \A i, j \in 1..Len(out) :
                 (InHistory(out[i]) /\ ~InHistory(out[j])) => i < j

\* the current session's label is a candidate's and the first of the history,
\* which also holds a label of no candidate and another candidate's label; a
\* third candidate's label is not in the history
C15_Witness ==
    /\ pin.phase = "picked"
    /\ pin.current_session # None
    /\ pin.current_session[1] \in CandidateLabels
    /\ Len(pin.history) = 3
    /\ pin.history[1] = pin.current_session[1]
    /\ pin.history[2] \notin CandidateLabels
    /\ pin.history[3] \in OfferedLabels
    /\ \E l \in CandidateLabels : ~Contains(pin.history, l)
    /\ pin.out = <<pin.history[3], pin.history[1]>>
                  \o SelectSeq(Labels(pin.projects),
                               LAMBDA l : ~Contains(pin.history, l))

====
